---- MODULE Spec2Model ----
(***************************************************************************)
(* The catalog schema of ECommerce/inventory/models.py as a state machine. *)
(* The state is the content of the tables the models declare; the actions  *)
(* are the row operations the schema governs (insert = Model.save() of a   *)
(* new instance, update = Model.save() of a stored instance, delete =      *)
(* Model.delete()), with the constraints the field declarations put on     *)
(* them: unique=True, unique_together, on_delete=PROTECT, OneToOneField,   *)
(* DecimalField(max_digits, decimal_places), auto_now_add / auto_now,      *)
(* default=..., and MPTTMeta.order_insertion_by.                           *)
(*                                                                         *)
(* Names are modelled by integers ordered as the strings are, prices by    *)
(* integers in hundredths (decimal_places = 2), primary keys by the        *)
(* AutoField counter of each table, NULL foreign keys by 0.                *)
(***************************************************************************)
EXTENDS Integers, FiniteSets, Sequences, TLC

VARIABLES
    category,               \* rows of Category, with their nested-set position
    product,                \* rows of Product
    productCategory,        \* rows of the join table of Product.category
    brand,                  \* primary keys of the Brand rows
    productAttribute,       \* primary keys of the ProductAttribute rows
    productType,            \* primary keys of the ProductType rows
    productAttributeValue,  \* rows of ProductAttributeValue
    productInventory,       \* rows of ProductInventory
    media,                  \* rows of Media
    stock,                  \* rows of Stock
    attributeLink,          \* rows of ProductAttributeLinkTable
    typeAttribute,          \* rows of ProductTypeAttribute
    nextId,                 \* the AutoField counter of every table
    now,                    \* the clock timezone.now() reads
    txn,                    \* the open transactions and their uncommitted row
    result                  \* what the last operation returned to its caller

vars == <<category, product, productCategory, brand, productAttribute,
          productType, productAttributeValue, productInventory, media, stock,
          attributeLink, typeAttribute, nextId, now, txn, result>>

----------------------------------------------------------------------------
(* Bounds of the model *)

MaxRows == 7
MaxVariants == 2
MaxLinks == 3
MaxStocks == 2
MaxStamped == 2
MaxCategories == 3
MaxName == 3
MaxCode == 2
MaxClock == 1
MaxUnits == 1

(* Program constants *)

max_digits == 5
decimal_places == 2

Names == 1..MaxName
Codes == 1..MaxCode
NoParent == 0
Txns == {"t1", "t2"}

OK == "ok"
UniquenessViolation == "UniquenessViolation"
ReferentialIntegrityError == "ReferentialIntegrityError"
RangeError == "RangeError"
ReferenceNotFoundError == "ReferenceNotFoundError"

Ids(rows) == {r.id : r \in rows}

Returned(op, arg, status) == [op |-> op, arg |-> arg, status |-> status]

NoTxn == [state |-> "idle", status |-> OK, sku |-> 0, upc |-> 0]

Init ==
    /\ category = {}
    /\ product = {}
    /\ productCategory = {}
    /\ brand = {}
    /\ productAttribute = {}
    /\ productType = {}
    /\ productAttributeValue = {}
    /\ productInventory = {}
    /\ media = {}
    /\ stock = {}
    /\ attributeLink = {}
    /\ typeAttribute = {}
    /\ nextId = [category |-> 1, product |-> 1, brand |-> 1,
                 productAttribute |-> 1, productType |-> 1,
                 productAttributeValue |-> 1, productInventory |-> 1,
                 media |-> 1, stock |-> 1, attributeLink |-> 1,
                 typeAttribute |-> 1]
    /\ now = 0
    /\ txn = [t \in Txns |-> NoTxn]
    /\ result = Returned("none", <<>>, OK)

----------------------------------------------------------------------------
(* Category: the MPTT tree *)

CategoryById(id) == CHOOSE c \in category : c.id = id

Children(parent) == {c \in category : c.parent = parent}

\* The position of a node among its siblings: roots are ordered by tree_id,
\* the children of a node by lft.
SiblingKey(c) == IF c.parent = NoParent THEN c.tree_id ELSE c.lft

\* order_insertion_by = ['name'] dropped: every node is inserted as last child.
RightSiblingNone(name, parent) == {}

\* order_insertion_by = ['name']: the insertion target is the first sibling, by
\* (name, position), whose name is greater than the new node's; no sibling is
\* looked for under a parent without descendants.
RightSibling(name, parent) ==
    LET cand == {c \in Children(parent) : c.name > name}
    IN  IF parent # NoParent /\ Children(parent) = {}
        THEN {}
        ELSE {c \in cand : \A d \in cand :
                \/ c.name < d.name
                \/ c.name = d.name /\ SiblingKey(c) <= SiblingKey(d)}

NextTreeId ==
    IF category = {} THEN 1
    ELSE (CHOOSE t \in {c.tree_id : c \in category} :
             \A c \in category : c.tree_id <= t) + 1

\* parent = models.PROTECT replaced by a policy that lets the delete through.
CategoryProtectedNever(id) == FALSE

\* parent = TreeForeignKey('self', on_delete=models.PROTECT): a category is
\* protected while another category names it as its parent.
CategoryProtected(id) == \E c \in category : c.parent = id

\* Insert of a root node: left of its right sibling (the trees from there on
\* move up by one tree_id), or as a new last tree.
InsertRoot(id, name, rs) ==
    LET tid == IF rs = {} THEN NextTreeId
               ELSE (CHOOSE r \in rs : TRUE).tree_id
    IN  {IF c.tree_id >= tid THEN [c EXCEPT !.tree_id = @ + 1] ELSE c :
            c \in category}
        \cup {[id |-> id, name |-> name, parent |-> NoParent,
               tree_id |-> tid, lft |-> 1, rght |-> 2]}

\* Insert of a child node: left of its right sibling, or as last child; the
\* nested-set bounds to the right of the insertion point move by two.
InsertChild(id, name, parent, rs) ==
    LET p == CategoryById(parent)
        target == IF rs = {} THEN p.rght - 1
                  ELSE (CHOOSE r \in rs : TRUE).lft - 1
        shift(c) == IF c.tree_id # p.tree_id THEN c
                    ELSE [c EXCEPT
                            !.lft = IF @ > target THEN @ + 2 ELSE @,
                            !.rght = IF @ > target THEN @ + 2 ELSE @]
    IN  {shift(c) : c \in category}
        \cup {[id |-> id, name |-> name, parent |-> parent,
               tree_id |-> p.tree_id, lft |-> target + 1, rght |-> target + 2]}

\* Category(name=name, parent=parent).save()
CategoryInsert(name, parent) ==
    /\ parent = NoParent \/ parent \in Ids(category)
    /\ LET id == nextId.category
           rs == RightSibling(name, parent)
       IN  /\ category' = IF parent = NoParent
                          THEN InsertRoot(id, name, rs)
                          ELSE InsertChild(id, name, parent, rs)
           /\ result' = Returned("CategoryInsert", <<id, name, parent>>, OK)
    /\ nextId' = [nextId EXCEPT !.category = @ + 1]
    /\ UNCHANGED <<product, productCategory, brand, productAttribute,
                   productType, productAttributeValue, productInventory,
                   media, stock, attributeLink, typeAttribute, now, txn>>

\* The nested-set bounds right of a deleted leaf move back by its width.
CloseGap(node) ==
    {IF c.tree_id # node.tree_id THEN c
     ELSE [c EXCEPT !.lft = IF @ > node.rght THEN @ - 2 ELSE @,
                    !.rght = IF @ > node.rght THEN @ - 2 ELSE @] :
        c \in category \ {node}}

\* Category.delete(): refused while the category is protected; otherwise the
\* row goes, and with it (CASCADE) its rows in the join table of
\* Product.category.
CategoryDelete(id) ==
    /\ id \in Ids(category)
    /\ IF CategoryProtected(id)
       THEN /\ result' = Returned("CategoryDelete", <<id>>,
                                  ReferentialIntegrityError)
            /\ UNCHANGED <<category, productCategory>>
       ELSE /\ category' = CloseGap(CategoryById(id))
            /\ productCategory' = {l \in productCategory : l.category # id}
            /\ result' = Returned("CategoryDelete", <<id>>, OK)
    /\ UNCHANGED <<product, brand, productAttribute, productType,
                   productAttributeValue, productInventory, media, stock,
                   attributeLink, typeAttribute, nextId, now, txn>>

----------------------------------------------------------------------------
(* The clock *)

\* Time passes between operations.
Tick ==
    /\ now < MaxClock
    /\ now' = now + 1
    /\ UNCHANGED <<category, product, productCategory, brand,
                   productAttribute, productType, productAttributeValue,
                   productInventory, media, stock, attributeLink,
                   typeAttribute, nextId, txn, result>>

\* The instants the two timezone.now() reads of one insert can return: the
\* reads happen in field order and the clock may advance between them.
Advances == {d \in 0..1 : now + d <= MaxClock}

----------------------------------------------------------------------------
(* Product and the join table of Product.category *)

\* ProductInventory.product = ForeignKey(Product, on_delete=models.PROTECT)
ProductProtected(id) == \E v \in productInventory : v.product = id

\* created_at = DateTimeField(auto_now_add=True), updated_at =
\* DateTimeField(auto_now=True): on insert each is set from its own read of
\* the clock, created_at first.
InsertStamps(d) == [created_at |-> now, updated_at |-> now + d]

\* auto_now_add behaving as auto_now: created_at overwritten on every save.
UpdateStampsBoth(row) == [row EXCEPT !.created_at = now, !.updated_at = now]

\* On the save of a stored row only updated_at (auto_now) is set from the
\* clock; created_at (auto_now_add, editable=False) keeps its value.
UpdateStamps(row) == [row EXCEPT !.updated_at = now]

\* Product(...).save()
ProductInsert(d) ==
    /\ d \in Advances
    /\ LET id == nextId.product
           s == InsertStamps(d)
       IN  /\ product' = product \cup
                  {[id |-> id, is_active |-> FALSE,
                    created_at |-> s.created_at, updated_at |-> s.updated_at]}
           /\ result' = Returned("ProductInsert", <<id>>, OK)
    /\ now' = now + d
    /\ nextId' = [nextId EXCEPT !.product = @ + 1]
    /\ UNCHANGED <<category, productCategory, brand, productAttribute,
                   productType, productAttributeValue, productInventory,
                   media, stock, attributeLink, typeAttribute, txn>>

\* p.is_active = active; p.save() on a stored product
ProductUpdate(id, active) ==
    /\ \E p \in product :
        /\ p.id = id
        /\ product' = (product \ {p})
                         \cup {UpdateStamps([p EXCEPT !.is_active = active])}
    /\ result' = Returned("ProductUpdate", <<id>>, OK)
    /\ UNCHANGED <<category, productCategory, brand, productAttribute,
                   productType, productAttributeValue, productInventory,
                   media, stock, attributeLink, typeAttribute, nextId, now,
                   txn>>

\* Product.delete(): refused while a variant references the product; the
\* rows of the join table of Product.category go with it (CASCADE).
ProductDelete(id) ==
    /\ id \in Ids(product)
    /\ IF ProductProtected(id)
       THEN /\ result' = Returned("ProductDelete", <<id>>,
                                  ReferentialIntegrityError)
            /\ UNCHANGED <<product, productCategory>>
       ELSE /\ product' = {p \in product : p.id # id}
            /\ productCategory' = {l \in productCategory : l.product # id}
            /\ result' = Returned("ProductDelete", <<id>>, OK)
    /\ UNCHANGED <<category, brand, productAttribute, productType,
                   productAttributeValue, productInventory, media, stock,
                   attributeLink, typeAttribute, nextId, now, txn>>

\* product.category.add(category): category = TreeManyToManyField(Category)
ProductCategoryAdd(p, c) ==
    /\ p \in Ids(product)
    /\ c \in Ids(category)
    /\ productCategory' = productCategory \cup {[product |-> p, category |-> c]}
    /\ result' = Returned("ProductCategoryAdd", <<p, c>>, OK)
    /\ UNCHANGED <<category, product, brand, productAttribute, productType,
                   productAttributeValue, productInventory, media, stock,
                   attributeLink, typeAttribute, nextId, now, txn>>

----------------------------------------------------------------------------
(* Brand, ProductAttribute, ProductType, ProductAttributeValue *)

\* ProductInventory.brand = ForeignKey(Brand, on_delete=models.PROTECT)
BrandProtected(id) == \E v \in productInventory : v.brand = id

\* Brand(...).save()
BrandInsert ==
    /\ brand' = brand \cup {nextId.brand}
    /\ result' = Returned("BrandInsert", <<nextId.brand>>, OK)
    /\ nextId' = [nextId EXCEPT !.brand = @ + 1]
    /\ UNCHANGED <<category, product, productCategory, productAttribute,
                   productType, productAttributeValue, productInventory,
                   media, stock, attributeLink, typeAttribute, now, txn>>

\* Brand.delete()
BrandDelete(id) ==
    /\ id \in brand
    /\ IF BrandProtected(id)
       THEN /\ result' = Returned("BrandDelete", <<id>>,
                                  ReferentialIntegrityError)
            /\ UNCHANGED brand
       ELSE /\ brand' = brand \ {id}
            /\ result' = Returned("BrandDelete", <<id>>, OK)
    /\ UNCHANGED <<category, product, productCategory, productAttribute,
                   productType, productAttributeValue, productInventory,
                   media, stock, attributeLink, typeAttribute, nextId, now,
                   txn>>

\* ProductAttributeValue.product_attribute and
\* ProductTypeAttribute.product_attribute, both on_delete=models.PROTECT
ProductAttributeProtected(id) ==
    \/ \E v \in productAttributeValue : v.product_attribute = id
    \/ \E l \in typeAttribute : l.product_attribute = id

\* ProductAttribute(...).save()
ProductAttributeInsert ==
    /\ productAttribute' = productAttribute \cup {nextId.productAttribute}
    /\ result' = Returned("ProductAttributeInsert",
                          <<nextId.productAttribute>>, OK)
    /\ nextId' = [nextId EXCEPT !.productAttribute = @ + 1]
    /\ UNCHANGED <<category, product, productCategory, brand, productType,
                   productAttributeValue, productInventory, media, stock,
                   attributeLink, typeAttribute, now, txn>>

\* ProductAttribute.delete()
ProductAttributeDelete(id) ==
    /\ id \in productAttribute
    /\ IF ProductAttributeProtected(id)
       THEN /\ result' = Returned("ProductAttributeDelete", <<id>>,
                                  ReferentialIntegrityError)
            /\ UNCHANGED productAttribute
       ELSE /\ productAttribute' = productAttribute \ {id}
            /\ result' = Returned("ProductAttributeDelete", <<id>>, OK)
    /\ UNCHANGED <<category, product, productCategory, brand, productType,
                   productAttributeValue, productInventory, media, stock,
                   attributeLink, typeAttribute, nextId, now, txn>>

\* ProductInventory.product_type and ProductTypeAttribute.product_type, both
\* on_delete=models.PROTECT
ProductTypeProtected(id) ==
    \/ \E v \in productInventory : v.product_type = id
    \/ \E l \in typeAttribute : l.product_type = id

\* ProductType(...).save()
ProductTypeInsert ==
    /\ productType' = productType \cup {nextId.productType}
    /\ result' = Returned("ProductTypeInsert", <<nextId.productType>>, OK)
    /\ nextId' = [nextId EXCEPT !.productType = @ + 1]
    /\ UNCHANGED <<category, product, productCategory, brand,
                   productAttribute, productAttributeValue, productInventory,
                   media, stock, attributeLink, typeAttribute, now, txn>>

\* ProductType.delete()
ProductTypeDelete(id) ==
    /\ id \in productType
    /\ IF ProductTypeProtected(id)
       THEN /\ result' = Returned("ProductTypeDelete", <<id>>,
                                  ReferentialIntegrityError)
            /\ UNCHANGED productType
       ELSE /\ productType' = productType \ {id}
            /\ result' = Returned("ProductTypeDelete", <<id>>, OK)
    /\ UNCHANGED <<category, product, productCategory, brand,
                   productAttribute, productAttributeValue, productInventory,
                   media, stock, attributeLink, typeAttribute, nextId, now,
                   txn>>

\* ProductAttributeLinkTable.attribute_values, on_delete=models.PROTECT
AttributeValueProtected(id) ==
    \E l \in attributeLink : l.attribute_values = id

\* ProductAttributeValue(product_attribute=attr).save(): the foreign key must
\* name a stored ProductAttribute.
AttributeValueInsert(attr) ==
    /\ IF attr \notin productAttribute
       THEN /\ result' = Returned("AttributeValueInsert", <<attr>>,
                                  ReferenceNotFoundError)
            /\ UNCHANGED <<productAttributeValue, nextId>>
       ELSE /\ productAttributeValue' = productAttributeValue \cup
                  {[id |-> nextId.productAttributeValue,
                    product_attribute |-> attr]}
            /\ result' = Returned("AttributeValueInsert", <<attr>>, OK)
            /\ nextId' = [nextId EXCEPT !.productAttributeValue = @ + 1]
    /\ UNCHANGED <<category, product, productCategory, brand,
                   productAttribute, productType, productInventory, media,
                   stock, attributeLink, typeAttribute, now, txn>>

\* ProductAttributeValue.delete()
AttributeValueDelete(id) ==
    /\ id \in Ids(productAttributeValue)
    /\ IF AttributeValueProtected(id)
       THEN /\ result' = Returned("AttributeValueDelete", <<id>>,
                                  ReferentialIntegrityError)
            /\ UNCHANGED productAttributeValue
       ELSE /\ productAttributeValue' =
                  {v \in productAttributeValue : v.id # id}
            /\ result' = Returned("AttributeValueDelete", <<id>>, OK)
    /\ UNCHANGED <<category, product, productCategory, brand,
                   productAttribute, productType, productInventory, media,
                   stock, attributeLink, typeAttribute, nextId, now, txn>>

----------------------------------------------------------------------------
(* ProductInventory *)

Abs(n) == IF n < 0 THEN 0 - n ELSE n

RECURSIVE NumDigits(_)
NumDigits(n) == IF n < 10 THEN 1 ELSE 1 + NumDigits(n \div 10)

\* DecimalField(max_digits=5, decimal_places=2): a value is stored when it
\* has at most max_digits digits, decimal_places of them after the point.
\* The sign takes no digit. p is the price in hundredths.
PriceStorable(p) == NumDigits(Abs(p)) <= max_digits

\* unique=True dropped from upc.
InventoryKeyTakenSkuOnly(sku, upc) == \E v \in productInventory : v.sku = sku

\* sku = CharField(unique=True), upc = CharField(unique=True): each has its
\* own unique index over the stored variants.
InventoryKeyTaken(sku, upc) ==
    \E v \in productInventory : v.sku = sku \/ v.upc = upc

\* The foreign keys of a variant taken as they come, without a constraint.
InventoryReferencesFoundAlways(ptype, prod, br) == TRUE

\* product_type = ForeignKey(ProductType), product = ForeignKey(Product),
\* brand = ForeignKey(Brand): each must name a stored row.
InventoryReferencesFound(ptype, prod, br) ==
    /\ ptype \in productType
    /\ prod \in Ids(product)
    /\ br \in brand

\* PROTECT dropped from the foreign keys onto ProductInventory.
InventoryProtectedNever(id) == FALSE

\* Media.product_inventory, Stock.product_inventory and
\* ProductAttributeLinkTable.product_inventory, all on_delete=models.PROTECT
InventoryProtected(id) ==
    \/ \E m \in media : m.product_inventory = id
    \/ \E s \in stock : s.product_inventory = id
    \/ \E l \in attributeLink : l.product_inventory = id

\* What the insert of a variant returns: the prices are converted for the
\* store before the row is sent, the unique indexes are checked as the row
\* is written, the foreign keys when the write is committed.
InventoryInsertStatus(sku, upc, ptype, prod, br, prices) ==
    IF \E i \in 1..3 : ~PriceStorable(prices[i]) THEN RangeError
    ELSE IF InventoryKeyTaken(sku, upc) THEN UniquenessViolation
    ELSE IF ~InventoryReferencesFound(ptype, prod, br)
    THEN ReferenceNotFoundError
    ELSE OK

\* ProductInventory(sku=..., upc=..., product_type=..., product=..., brand=...,
\* retail_price=prices[1], store_price=prices[2], sale_price=prices[3]).save()
InventoryInsert(sku, upc, ptype, prod, br, prices, d) ==
    /\ d \in Advances
    /\ LET id == nextId.productInventory
           status == InventoryInsertStatus(sku, upc, ptype, prod, br, prices)
           s == InsertStamps(d)
       IN  /\ result' = Returned("InventoryInsert",
                                 <<sku, upc, ptype, prod, br,
                                   prices[1], prices[2], prices[3]>>, status)
           /\ IF status = OK
              THEN /\ productInventory' = productInventory \cup
                         {[id |-> id, sku |-> sku, upc |-> upc,
                           product_type |-> ptype, product |-> prod,
                           brand |-> br, is_active |-> FALSE,
                           retail_price |-> prices[1],
                           store_price |-> prices[2],
                           sale_price |-> prices[3],
                           created_at |-> s.created_at,
                           updated_at |-> s.updated_at]}
                   /\ nextId' = [nextId EXCEPT !.productInventory = @ + 1]
                   /\ now' = now + d
              ELSE UNCHANGED <<productInventory, nextId, now>>
    /\ UNCHANGED <<category, product, productCategory, brand,
                   productAttribute, productType, productAttributeValue,
                   media, stock, attributeLink, typeAttribute, txn>>

\* v.is_active = active; v.save() on a stored variant
InventoryUpdate(id, active) ==
    /\ \E v \in productInventory :
        /\ v.id = id
        /\ productInventory' = (productInventory \ {v})
              \cup {UpdateStamps([v EXCEPT !.is_active = active])}
    /\ result' = Returned("InventoryUpdate", <<id>>, OK)
    /\ UNCHANGED <<category, product, productCategory, brand,
                   productAttribute, productType, productAttributeValue,
                   media, stock, attributeLink, typeAttribute, nextId, now,
                   txn>>

\* ProductInventory.delete()
InventoryDelete(id) ==
    /\ id \in Ids(productInventory)
    /\ IF InventoryProtected(id)
       THEN /\ result' = Returned("InventoryDelete", <<id>>,
                                  ReferentialIntegrityError)
            /\ UNCHANGED productInventory
       ELSE /\ productInventory' = {v \in productInventory : v.id # id}
            /\ result' = Returned("InventoryDelete", <<id>>, OK)
    /\ UNCHANGED <<category, product, productCategory, brand,
                   productAttribute, productType, productAttributeValue,
                   media, stock, attributeLink, typeAttribute, nextId, now,
                   txn>>

----------------------------------------------------------------------------
(* Media and Stock *)

\* Media(product_inventory=inv, ...).save()
MediaInsert(inv, d) ==
    /\ d \in Advances
    /\ LET s == InsertStamps(d)
       IN  IF inv \notin Ids(productInventory)
           THEN /\ result' = Returned("MediaInsert", <<inv>>,
                                      ReferenceNotFoundError)
                /\ UNCHANGED <<media, nextId, now>>
           ELSE /\ media' = media \cup
                      {[id |-> nextId.media, product_inventory |-> inv,
                        is_feature |-> FALSE,
                        created_at |-> s.created_at,
                        updated_at |-> s.updated_at]}
                /\ result' = Returned("MediaInsert", <<inv>>, OK)
                /\ nextId' = [nextId EXCEPT !.media = @ + 1]
                /\ now' = now + d
    /\ UNCHANGED <<category, product, productCategory, brand,
                   productAttribute, productType, productAttributeValue,
                   productInventory, stock, attributeLink, typeAttribute,
                   txn>>

\* m.is_feature = feature; m.save() on a stored media row
MediaUpdate(id, feature) ==
    /\ \E m \in media :
        /\ m.id = id
        /\ media' = (media \ {m})
                       \cup {UpdateStamps([m EXCEPT !.is_feature = feature])}
    /\ result' = Returned("MediaUpdate", <<id>>, OK)
    /\ UNCHANGED <<category, product, productCategory, brand,
                   productAttribute, productType, productAttributeValue,
                   productInventory, stock, attributeLink, typeAttribute,
                   nextId, now, txn>>

\* Media.delete(): nothing references a media row.
MediaDelete(id) ==
    /\ id \in Ids(media)
    /\ media' = {m \in media : m.id # id}
    /\ result' = Returned("MediaDelete", <<id>>, OK)
    /\ UNCHANGED <<category, product, productCategory, brand,
                   productAttribute, productType, productAttributeValue,
                   productInventory, stock, attributeLink, typeAttribute,
                   nextId, now, txn>>

\* product_inventory as a plain ForeignKey: no unique index on it.
StockTakenNever(inv) == FALSE

\* product_inventory = OneToOneField(ProductInventory): a foreign key with a
\* unique index, so a variant is named by at most one Stock row.
StockTaken(inv) == \E s \in stock : s.product_inventory = inv

\* units = IntegerField(default=0), units_sold = IntegerField(default=0): a
\* counter the caller leaves out (given = {}) is stored as 0.
StockCounter(given) == IF given = {} THEN 0 ELSE CHOOSE n \in given : TRUE

\* Stock(product_inventory=inv[, units=...][, units_sold=...]).save()
StockInsert(inv, units, units_sold) ==
    /\ LET status == IF StockTaken(inv) THEN UniquenessViolation
                     ELSE IF inv \notin Ids(productInventory)
                     THEN ReferenceNotFoundError
                     ELSE OK
       IN  /\ result' = Returned("StockInsert", <<inv, units, units_sold>>,
                                 status)
           /\ IF status = OK
              THEN /\ stock' = stock \cup
                         {[id |-> nextId.stock, product_inventory |-> inv,
                           units |-> StockCounter(units),
                           units_sold |-> StockCounter(units_sold)]}
                   /\ nextId' = [nextId EXCEPT !.stock = @ + 1]
              ELSE UNCHANGED <<stock, nextId>>
    /\ UNCHANGED <<category, product, productCategory, brand,
                   productAttribute, productType, productAttributeValue,
                   productInventory, media, attributeLink, typeAttribute,
                   now, txn>>

\* Stock.delete(): nothing references a stock row.
StockDelete(id) ==
    /\ id \in Ids(stock)
    /\ stock' = {s \in stock : s.id # id}
    /\ result' = Returned("StockDelete", <<id>>, OK)
    /\ UNCHANGED <<category, product, productCategory, brand,
                   productAttribute, productType, productAttributeValue,
                   productInventory, media, attributeLink, typeAttribute,
                   nextId, now, txn>>

----------------------------------------------------------------------------
(* The link tables *)

\* unique_together dropped from ProductAttributeLinkTable.
AttributeLinkTakenNever(av, inv) == FALSE

\* ProductAttributeLinkTable.Meta.unique_together =
\* (('attribute_values', 'product_inventory'),)
AttributeLinkTaken(av, inv) ==
    \E l \in attributeLink :
        l.attribute_values = av /\ l.product_inventory = inv

\* ProductAttributeLinkTable(attribute_values=av, product_inventory=inv).save()
AttributeLinkInsert(av, inv) ==
    /\ LET status == IF AttributeLinkTaken(av, inv) THEN UniquenessViolation
                     ELSE IF \/ av \notin Ids(productAttributeValue)
                             \/ inv \notin Ids(productInventory)
                     THEN ReferenceNotFoundError
                     ELSE OK
       IN  /\ result' = Returned("AttributeLinkInsert", <<av, inv>>, status)
           /\ IF status = OK
              THEN /\ attributeLink' = attributeLink \cup
                         {[id |-> nextId.attributeLink,
                           attribute_values |-> av,
                           product_inventory |-> inv]}
                   /\ nextId' = [nextId EXCEPT !.attributeLink = @ + 1]
              ELSE UNCHANGED <<attributeLink, nextId>>
    /\ UNCHANGED <<category, product, productCategory, brand,
                   productAttribute, productType, productAttributeValue,
                   productInventory, media, stock, typeAttribute, now, txn>>

\* ProductAttributeLinkTable.delete(): nothing references a link row.
AttributeLinkDelete(id) ==
    /\ id \in Ids(attributeLink)
    /\ attributeLink' = {l \in attributeLink : l.id # id}
    /\ result' = Returned("AttributeLinkDelete", <<id>>, OK)
    /\ UNCHANGED <<category, product, productCategory, brand,
                   productAttribute, productType, productAttributeValue,
                   productInventory, media, stock, typeAttribute, nextId,
                   now, txn>>

\* ProductTypeAttribute.Meta.unique_together =
\* ('product_attribute', 'product_type')
TypeAttributeTaken(attr, ptype) ==
    \E l \in typeAttribute :
        l.product_attribute = attr /\ l.product_type = ptype

\* ProductTypeAttribute(product_attribute=attr, product_type=ptype).save()
TypeAttributeInsert(attr, ptype) ==
    /\ LET status == IF TypeAttributeTaken(attr, ptype)
                     THEN UniquenessViolation
                     ELSE IF \/ attr \notin productAttribute
                             \/ ptype \notin productType
                     THEN ReferenceNotFoundError
                     ELSE OK
       IN  /\ result' = Returned("TypeAttributeInsert", <<attr, ptype>>, status)
           /\ IF status = OK
              THEN /\ typeAttribute' = typeAttribute \cup
                         {[id |-> nextId.typeAttribute,
                           product_attribute |-> attr,
                           product_type |-> ptype]}
                   /\ nextId' = [nextId EXCEPT !.typeAttribute = @ + 1]
              ELSE UNCHANGED <<typeAttribute, nextId>>
    /\ UNCHANGED <<category, product, productCategory, brand,
                   productAttribute, productType, productAttributeValue,
                   productInventory, media, stock, attributeLink, now, txn>>

\* ProductTypeAttribute.delete(): nothing references a link row.
TypeAttributeDelete(id) ==
    /\ id \in Ids(typeAttribute)
    /\ typeAttribute' = {l \in typeAttribute : l.id # id}
    /\ result' = Returned("TypeAttributeDelete", <<id>>, OK)
    /\ UNCHANGED <<category, product, productCategory, brand,
                   productAttribute, productType, productAttributeValue,
                   productInventory, media, stock, attributeLink, nextId,
                   now, txn>>

----------------------------------------------------------------------------
(* Inserts of variants inside caller-opened transactions *)

\* transaction.atomic().__enter__
TxnBegin(t) ==
    /\ txn[t].state \in {"idle", "committed", "rolledback"}
    /\ txn' = [txn EXCEPT ![t] = [NoTxn EXCEPT !.state = "open"]]
    /\ UNCHANGED <<category, product, productCategory, brand,
                   productAttribute, productType, productAttributeValue,
                   productInventory, media, stock, attributeLink,
                   typeAttribute, nextId, now, result>>

\* The unique index consulted for committed rows only.
TxnMustWaitNever(t, sku, upc) == FALSE

\* sku / upc unique=True: the unique index holds the keys of uncommitted rows
\* too; a writer of a key another open transaction has written waits for that
\* transaction to end.
TxnMustWait(t, sku, upc) ==
    \E u \in Txns \ {t} :
        /\ txn[u].state = "written"
        /\ txn[u].sku = sku \/ txn[u].upc = upc

\* ProductInventory(sku=..., upc=..., ...).save() inside transaction t, with
\* stored references and storable prices.
TxnInventoryInsert(t, sku, upc) ==
    /\ txn[t].state = "open"
    /\ ~TxnMustWait(t, sku, upc)
    /\ txn' = [txn EXCEPT ![t] =
                 IF InventoryKeyTaken(sku, upc)
                 THEN [state |-> "failed", status |-> UniquenessViolation,
                       sku |-> sku, upc |-> upc]
                 ELSE [state |-> "written", status |-> OK,
                       sku |-> sku, upc |-> upc]]
    /\ UNCHANGED <<category, product, productCategory, brand,
                   productAttribute, productType, productAttributeValue,
                   productInventory, media, stock, attributeLink,
                   typeAttribute, nextId, now, result>>

\* transaction.atomic().__exit__ without an exception: the written row
\* becomes a stored row.
TxnCommit(t, ptype, prod, br) ==
    /\ txn[t].state = "written"
    /\ InventoryReferencesFound(ptype, prod, br)
    /\ productInventory' = productInventory \cup
          {[id |-> nextId.productInventory, sku |-> txn[t].sku,
            upc |-> txn[t].upc, product_type |-> ptype, product |-> prod,
            brand |-> br, is_active |-> FALSE, retail_price |-> 0,
            store_price |-> 0, sale_price |-> 0,
            created_at |-> now, updated_at |-> now]}
    /\ nextId' = [nextId EXCEPT !.productInventory = @ + 1]
    /\ txn' = [txn EXCEPT ![t].state = "committed"]
    /\ UNCHANGED <<category, product, productCategory, brand,
                   productAttribute, productType, productAttributeValue,
                   media, stock, attributeLink, typeAttribute, now, result>>

\* transaction.atomic().__exit__ with an exception, or a rollback by the
\* caller: the written row is dropped.
TxnRollback(t) ==
    /\ txn[t].state \in {"open", "written", "failed"}
    /\ txn' = [txn EXCEPT ![t].state = "rolledback"]
    /\ UNCHANGED <<category, product, productCategory, brand,
                   productAttribute, productType, productAttributeValue,
                   productInventory, media, stock, attributeLink,
                   typeAttribute, nextId, now, result>>

----------------------------------------------------------------------------
(* The category tree under insertions *)

NextTree ==
    \E name \in Names, parent \in {NoParent} \cup Ids(category) :
        /\ nextId.category <= MaxCategories
        /\ CategoryInsert(name, parent)

SpecTree == Init /\ [][NextTree]_vars

\* Siblings (the children of one parent, or the roots) have distinct
\* positions.
SiblingsPositioned ==
    \A a, b \in category :
        a.parent = b.parent /\ a.id # b.id => SiblingKey(a) # SiblingKey(b)

\* C10: after any sequence of category insertions the children of every
\* parent, and the roots, stand in non-decreasing order of name: a sibling
\* positioned before another never has the greater name.
SiblingsOrderedByName ==
    /\ SiblingsPositioned
    /\ \A a, b \in category :
          a.parent = b.parent /\ SiblingKey(a) < SiblingKey(b)
              => a.name <= b.name

\* C10 witness: the youngest of three siblings, inserted after the other two,
\* stands between them, as its name does.
SiblingInsertedBetween ==
    \E a, b, c \in category :
        /\ a.parent = b.parent /\ b.parent = c.parent
        /\ c.id > a.id /\ c.id > b.id
        /\ SiblingKey(a) < SiblingKey(c) /\ SiblingKey(c) < SiblingKey(b)
        /\ a.name < c.name /\ c.name < b.name

----------------------------------------------------------------------------
(* The whole catalog under inserts and deletes *)

\* The rows inserted so far, over all tables.
Inserted ==
    (nextId.category - 1) + (nextId.product - 1) + (nextId.brand - 1)
    + (nextId.productAttribute - 1) + (nextId.productType - 1)
    + (nextId.productAttributeValue - 1) + (nextId.productInventory - 1)
    + (nextId.media - 1) + (nextId.stock - 1) + (nextId.attributeLink - 1)
    + (nextId.typeAttribute - 1)

NoPrices == <<0, 0, 0>>

\* The primary keys a caller can name in a table: those issued so far, and
\* the first one not issued yet, which names no row.
Refs(table) == 1..nextId[table]

Next ==
    \/ Inserted < MaxRows /\ ProductInsert(0)
    \/ Inserted < MaxRows /\ BrandInsert
    \/ Inserted < MaxRows /\ ProductAttributeInsert
    \/ Inserted < MaxRows /\ ProductTypeInsert
    \/ \E attr \in Refs("productAttribute") :
          Inserted < MaxRows /\ AttributeValueInsert(attr)
    \/ \E ptype \in Refs("productType"), prod \in Refs("product"),
          br \in Refs("brand") :
          Inserted < MaxRows
          /\ InventoryInsert(nextId.productInventory, nextId.productInventory,
                             ptype, prod, br, NoPrices, 0)
    \/ \E inv \in Refs("productInventory") :
          Inserted < MaxRows /\ MediaInsert(inv, 0)
    \/ \E inv \in Refs("productInventory") :
          Inserted < MaxRows /\ StockInsert(inv, {}, {})
    \/ \E av \in Refs("productAttributeValue"),
          inv \in Refs("productInventory") :
          Inserted < MaxRows /\ AttributeLinkInsert(av, inv)
    \/ \E attr \in Refs("productAttribute"), ptype \in Refs("productType") :
          Inserted < MaxRows /\ TypeAttributeInsert(attr, ptype)
    \/ \E id \in Refs("product") : ProductDelete(id)
    \/ \E id \in Refs("brand") : BrandDelete(id)
    \/ \E id \in Refs("productAttribute") : ProductAttributeDelete(id)
    \/ \E id \in Refs("productType") : ProductTypeDelete(id)
    \/ \E id \in Refs("productAttributeValue") : AttributeValueDelete(id)
    \/ \E id \in Refs("productInventory") : InventoryDelete(id)
    \/ \E id \in Refs("media") : MediaDelete(id)
    \/ \E id \in Refs("stock") : StockDelete(id)
    \/ \E id \in Refs("attributeLink") : AttributeLinkDelete(id)
    \/ \E id \in Refs("typeAttribute") : TypeAttributeDelete(id)

\* A catalog set up with one product, brand, product type, attribute and
\* attribute value.
InitCatalog ==
    /\ category = {}
    /\ product = {[id |-> 1, is_active |-> FALSE,
                   created_at |-> 0, updated_at |-> 0]}
    /\ productCategory = {}
    /\ brand = {1}
    /\ productAttribute = {1}
    /\ productType = {1}
    /\ productAttributeValue = {[id |-> 1, product_attribute |-> 1]}
    /\ productInventory = {}
    /\ media = {}
    /\ stock = {}
    /\ attributeLink = {}
    /\ typeAttribute = {}
    /\ nextId = [category |-> 1, product |-> 2, brand |-> 2,
                 productAttribute |-> 2, productType |-> 2,
                 productAttributeValue |-> 2, productInventory |-> 1,
                 media |-> 1, stock |-> 1, attributeLink |-> 1,
                 typeAttribute |-> 1]
    /\ now = 0
    /\ txn = [t \in Txns |-> NoTxn]
    /\ result = Returned("none", <<>>, OK)

Spec == InitCatalog /\ [][Next]_vars

\* Every foreign key of every stored row names a stored row.
NoDanglingReference ==
    /\ \A c \in category : c.parent = NoParent \/ c.parent \in Ids(category)
    /\ \A l \in productCategory :
          l.product \in Ids(product) /\ l.category \in Ids(category)
    /\ \A v \in productAttributeValue :
          v.product_attribute \in productAttribute
    /\ \A v \in productInventory :
          /\ v.product_type \in productType
          /\ v.product \in Ids(product)
          /\ v.brand \in brand
    /\ \A m \in media : m.product_inventory \in Ids(productInventory)
    /\ \A s \in stock : s.product_inventory \in Ids(productInventory)
    /\ \A l \in attributeLink :
          /\ l.attribute_values \in Ids(productAttributeValue)
          /\ l.product_inventory \in Ids(productInventory)
    /\ \A l \in typeAttribute :
          /\ l.product_attribute \in productAttribute
          /\ l.product_type \in productType

----------------------------------------------------------------------------
(* Variants: unique keys, prices and references *)

\* The prices tried, in hundredths: 0.00; -1.00 with 999.99, the largest
\* price of max_digits digits; and 1000.00, the smallest price beyond it, in
\* each field.
PriceCases ==
    LET one == 10 ^ decimal_places
        over == 10 ^ max_digits
    IN  {<<0, 0, 0>>, <<0 - one, over - 1, 0>>,
         <<over, 0, 0>>, <<0, over, 0>>, <<0, 0, over>>}

\* The references and prices tried together: every combination of issued
\* and unissued references with a storable price, every price case with the
\* references of the set-up catalog, and a price beyond the limit with
\* references that name no row.
InventoryCases ==
    {<<r, <<0, 0, 0>>>> :
        r \in Refs("productType") \X Refs("product") \X Refs("brand")}
    \cup {<<<<1, 1, 1>>, p>> : p \in PriceCases}
    \cup {<<<<2, 2, 2>>, <<10 ^ max_digits, 0, 0>>>>}

NextInventory ==
    \/ \E sku, upc \in Codes, c \in InventoryCases :
          /\ nextId.productInventory <= MaxVariants
          /\ InventoryInsert(sku, upc, c[1][1], c[1][2], c[1][3], c[2], 0)
    \/ \E id \in Refs("productInventory") : InventoryDelete(id)
    \/ \E id \in Refs("product") : ProductDelete(id)
    \/ \E id \in Refs("brand") : BrandDelete(id)
    \/ \E id \in Refs("productType") : ProductTypeDelete(id)

SpecInventory == InitCatalog /\ [][NextInventory]_vars

----------------------------------------------------------------------------
(* Categories under inserts and deletes, with products linked to them *)

NextCategory ==
    \/ \E name \in Names, parent \in {NoParent} \cup Ids(category) :
          /\ nextId.category <= MaxCategories
          /\ CategoryInsert(name, parent)
    \/ \E id \in Refs("category") : CategoryDelete(id)
    \/ \E p \in Refs("product"), c \in Refs("category") :
          ProductCategoryAdd(p, c)
    \/ \E id \in Refs("product") : ProductDelete(id)

SpecCategory == InitCatalog /\ [][NextCategory]_vars

----------------------------------------------------------------------------
(* Link rows and stock rows over a catalog with two variants *)

\* A catalog with two attributes, one attribute value, and two variants of
\* its product.
InitVariants ==
    /\ category = {}
    /\ product = {[id |-> 1, is_active |-> FALSE,
                   created_at |-> 0, updated_at |-> 0]}
    /\ productCategory = {}
    /\ brand = {1}
    /\ productAttribute = {1, 2}
    /\ productType = {1}
    /\ productAttributeValue = {[id |-> 1, product_attribute |-> 1]}
    /\ productInventory =
          {[id |-> i, sku |-> i, upc |-> i, product_type |-> 1,
            product |-> 1, brand |-> 1, is_active |-> FALSE,
            retail_price |-> 0, store_price |-> 0, sale_price |-> 0,
            created_at |-> 0, updated_at |-> 0] : i \in {1, 2}}
    /\ media = {}
    /\ stock = {}
    /\ attributeLink = {}
    /\ typeAttribute = {}
    /\ nextId = [category |-> 1, product |-> 2, brand |-> 2,
                 productAttribute |-> 3, productType |-> 2,
                 productAttributeValue |-> 2, productInventory |-> 3,
                 media |-> 1, stock |-> 1, attributeLink |-> 1,
                 typeAttribute |-> 1]
    /\ now = 0
    /\ txn = [t \in Txns |-> NoTxn]
    /\ result = Returned("none", <<>>, OK)

\* A counter of a new Stock row: left out, or given.
Counters == {{}} \cup {{n} : n \in 0..MaxUnits}

NextLink ==
    \/ \E av \in Refs("productAttributeValue"),
          inv \in Refs("productInventory") :
          /\ nextId.attributeLink <= MaxLinks
          /\ AttributeLinkInsert(av, inv)
    \/ \E id \in Refs("attributeLink") : AttributeLinkDelete(id)
    \/ \E attr \in Refs("productAttribute"), ptype \in Refs("productType") :
          /\ nextId.typeAttribute <= MaxLinks
          /\ TypeAttributeInsert(attr, ptype)
    \/ \E id \in Refs("typeAttribute") : TypeAttributeDelete(id)

SpecLink == InitVariants /\ [][NextLink]_vars

NextStock ==
    \/ \E inv \in Refs("productInventory"), units, units_sold \in Counters :
          /\ nextId.stock <= MaxStocks
          /\ StockInsert(inv, units, units_sold)
    \/ \E id \in Refs("stock") : StockDelete(id)
    \/ \E id \in Refs("productInventory") : InventoryDelete(id)

SpecStock == InitVariants /\ [][NextStock]_vars

----------------------------------------------------------------------------
(* Timestamps under a clock that never runs backwards *)

\* The rows with timestamps inserted so far, after the product of the set-up
\* catalog.
Stamped ==
    (nextId.product - 2) + (nextId.productInventory - 1) + (nextId.media - 1)

NextTime ==
    \/ Tick
    \/ \E d \in 0..1 :
          Stamped < MaxStamped /\ ProductInsert(d)
    \/ \E id \in Refs("product"), active \in BOOLEAN :
          ProductUpdate(id, active)
    \/ \E d \in 0..1 :
          /\ Stamped < MaxStamped
          /\ InventoryInsert(nextId.productInventory,
                             nextId.productInventory, 1, 1, 1, NoPrices, d)
    \/ \E id \in Refs("productInventory"), active \in BOOLEAN :
          InventoryUpdate(id, active)
    \/ \E inv \in Refs("productInventory"), d \in 0..1 :
          Stamped < MaxStamped /\ MediaInsert(inv, d)
    \/ \E id \in Refs("media"), feature \in BOOLEAN :
          MediaUpdate(id, feature)

SpecTime == InitCatalog /\ [][NextTime]_vars

----------------------------------------------------------------------------
(* Variants inserted by concurrent transactions *)

NextTxn ==
    \/ \E t \in Txns : TxnBegin(t)
    \/ \E t \in Txns, sku, upc \in Codes :
          /\ nextId.productInventory <= MaxVariants
          /\ TxnInventoryInsert(t, sku, upc)
    \/ \E t \in Txns : TxnCommit(t, 1, 1, 1)
    \/ \E t \in Txns : TxnRollback(t)

SpecTxn == InitCatalog /\ [][NextTxn]_vars

----------------------------------------------------------------------------
(* Claims *)

\* C1: delete(c) of a stored category fails with ReferentialIntegrityError,
\* leaving the table as it was, when some category has c as its parent, and
\* succeeds, removing c, when c has no child category.
CategoryDeleteRestricted ==
    [][\A c \in Ids(category) :
          result'.op = "CategoryDelete" /\ result'.arg = <<c>> =>
              IF \E k \in category : k.parent = c
              THEN /\ result'.status = ReferentialIntegrityError
                   /\ category' = category
              ELSE /\ result'.status = OK
                   /\ c \notin Ids(category')]_vars

\* C1 witness: the delete of a category that has a child has been refused.
ParentDeleteRefused ==
    /\ result.op = "CategoryDelete"
    /\ result.status = ReferentialIntegrityError
    /\ \E k \in category : <<k.parent>> = result.arg

\* C2: after any sequence of inserts and deletes no stored row holds a
\* foreign key naming a row that is not stored, and the delete of a Product,
\* Brand, ProductType, ProductAttribute, ProductAttributeValue or
\* ProductInventory row is refused, with ReferentialIntegrityError, exactly
\* while a row of another table references it.
ReferencesProtected ==
    /\ []NoDanglingReference
    /\ [][\A id \in 1..MaxRows :
            LET refused == result'.status = ReferentialIntegrityError
                deleted(op) == result'.op = op /\ result'.arg = <<id>>
            IN  /\ deleted("ProductDelete") =>
                    (refused <=> \E v \in productInventory : v.product = id)
                /\ deleted("BrandDelete") =>
                    (refused <=> \E v \in productInventory : v.brand = id)
                /\ deleted("ProductTypeDelete") =>
                    (refused <=>
                        \/ \E v \in productInventory : v.product_type = id
                        \/ \E l \in typeAttribute : l.product_type = id)
                /\ deleted("ProductAttributeDelete") =>
                    (refused <=>
                        \/ \E v \in productAttributeValue :
                              v.product_attribute = id
                        \/ \E l \in typeAttribute : l.product_attribute = id)
                /\ deleted("AttributeValueDelete") =>
                    (refused <=>
                        \E l \in attributeLink : l.attribute_values = id)
                /\ deleted("InventoryDelete") =>
                    (refused <=>
                        \/ \E m \in media : m.product_inventory = id
                        \/ \E t \in stock : t.product_inventory = id
                        \/ \E l \in attributeLink :
                              l.product_inventory = id)]_vars

\* C2 witness: the delete of a variant that a link row references has been
\* refused.
ReferencedDeleteRefused ==
    /\ result.op = "InventoryDelete"
    /\ result.status = ReferentialIntegrityError
    /\ \E l \in attributeLink : <<l.product_inventory>> = result.arg

\* No two stored variants share a sku, and no two share a upc.
UniqueKeys ==
    \A v, w \in productInventory :
        v.id # w.id => v.sku # w.sku /\ v.upc # w.upc

\* C3: the insert of a variant whose sku or upc a stored variant has fails
\* with UniquenessViolation, and the insert of one whose sku and upc are both
\* unused succeeds and stores them (the prices being storable and the
\* references naming stored rows); so no two stored variants ever share a
\* sku or a upc.
InventoryKeysUnique ==
    /\ []UniqueKeys
    /\ [][result'.op = "InventoryInsert" =>
            LET a == result'.arg
                used == \E v \in productInventory :
                            v.sku = a[1] \/ v.upc = a[2]
                storable == \A i \in 6..8 : PriceStorable(a[i])
                found == InventoryReferencesFound(a[3], a[4], a[5])
            IN  /\ used /\ storable =>
                    /\ result'.status = UniquenessViolation
                    /\ productInventory' = productInventory
                /\ ~used /\ storable /\ found =>
                    /\ result'.status = OK
                    /\ \E v \in productInventory' \ productInventory :
                          v.sku = a[1] /\ v.upc = a[2]]_vars

\* C3 witness: an insert has been refused for its upc alone, its sku being
\* unused.
DuplicateUpcRefused ==
    /\ result.op = "InventoryInsert"
    /\ result.status = UniquenessViolation
    /\ \E v \in productInventory : v.upc = result.arg[2]
    /\ \A v \in productInventory : v.sku # result.arg[1]

\* The largest price of max_digits digits, in hundredths: 999.99.
MaxPrice == 10 ^ max_digits - 1

\* C4: the insert of a variant with a price outside [0.00, 999.99] fails with
\* RangeError, and every stored variant has its three prices within
\* [0.00, 999.99].
PricesWithinRange ==
    /\ \A v \in productInventory :
          /\ v.retail_price \in 0..MaxPrice
          /\ v.store_price \in 0..MaxPrice
          /\ v.sale_price \in 0..MaxPrice
    /\ result.op = "InventoryInsert"
       /\ (\E i \in 6..8 : result.arg[i] \notin 0..MaxPrice)
          => result.status = RangeError

\* C5: no pair is stored twice in a link table; the insert of a stored pair
\* fails with UniquenessViolation, and the insert of a pair not stored whose
\* references name stored rows succeeds, whatever other pairs share one of
\* its components.
LinkPairsUnique ==
    /\ [](\A k, l \in attributeLink :
            k.id # l.id => \/ k.attribute_values # l.attribute_values
                           \/ k.product_inventory # l.product_inventory)
    /\ [](\A k, l \in typeAttribute :
            k.id # l.id => \/ k.product_attribute # l.product_attribute
                           \/ k.product_type # l.product_type)
    /\ [][result'.op = "AttributeLinkInsert" =>
            LET a == result'.arg
                stored == \E l \in attributeLink :
                    l.attribute_values = a[1] /\ l.product_inventory = a[2]
            IN  /\ stored => /\ result'.status = UniquenessViolation
                             /\ attributeLink' = attributeLink
                /\ ~stored /\ a[1] \in Ids(productAttributeValue)
                           /\ a[2] \in Ids(productInventory) =>
                      /\ result'.status = OK
                      /\ \E l \in attributeLink' \ attributeLink :
                            /\ l.attribute_values = a[1]
                            /\ l.product_inventory = a[2]]_vars
    /\ [][result'.op = "TypeAttributeInsert" =>
            LET a == result'.arg
                stored == \E l \in typeAttribute :
                    l.product_attribute = a[1] /\ l.product_type = a[2]
            IN  /\ stored => /\ result'.status = UniquenessViolation
                             /\ typeAttribute' = typeAttribute
                /\ ~stored /\ a[1] \in productAttribute
                           /\ a[2] \in productType =>
                      /\ result'.status = OK
                      /\ \E l \in typeAttribute' \ typeAttribute :
                            /\ l.product_attribute = a[1]
                            /\ l.product_type = a[2]]_vars

\* C5 witness: with the pairs (A, I) and (A, J) both stored, a second insert
\* of (A, I) has been refused.
DuplicatePairRefused ==
    /\ result.op = "AttributeLinkInsert"
    /\ result.status = UniquenessViolation
    /\ \E k, l \in attributeLink :
          /\ <<k.attribute_values, k.product_inventory>> = result.arg
          /\ l.attribute_values = k.attribute_values
          /\ l.product_inventory # k.product_inventory

\* C6: the insert of a variant succeeds only if its product type, product and
\* brand are all stored when it is made; with one of them missing it fails,
\* and with ReferenceNotFoundError when nothing else is wrong with the row
\* (storable prices, unused sku and upc).
InventoryReferencesRequired ==
    [][result'.op = "InventoryInsert" =>
          LET a == result'.arg
              found == /\ a[3] \in productType
                       /\ a[4] \in Ids(product)
                       /\ a[5] \in brand
              used == \E v \in productInventory :
                          v.sku = a[1] \/ v.upc = a[2]
              storable == \A i \in 6..8 : PriceStorable(a[i])
          IN  /\ result'.status = OK => found
              /\ ~found => /\ result'.status # OK
                           /\ productInventory' = productInventory
              /\ ~found /\ ~used /\ storable =>
                    result'.status = ReferenceNotFoundError]_vars

\* C6 witness: an insert naming a stored product type and a stored product
\* has been refused because its brand is not stored.
MissingBrandRefused ==
    /\ result.op = "InventoryInsert"
    /\ result.status = ReferenceNotFoundError
    /\ result.arg[3] \in productType
    /\ result.arg[4] \in Ids(product)
    /\ result.arg[5] \notin brand

\* The rows that carry created_at and updated_at, by table and primary key.
StampedRows ==
    {<<"product", p.id, p.created_at, p.updated_at>> : p \in product}
    \cup {<<"productInventory", v.id, v.created_at, v.updated_at>> :
            v \in productInventory}
    \cup {<<"media", m.id, m.created_at, m.updated_at>> : m \in media}

\* C7: for every Product, ProductInventory and Media row, under a clock that
\* never runs backwards: created_at <= updated_at in every state; no step
\* changes the created_at of a stored row; and every save of a row, the
\* insert and each later update (the steps that return to the caller; the
\* clock moves between them), leaves its updated_at at the time of the save,
\* never earlier than it was.
TimestampsMaintained ==
    /\ [](\A r \in StampedRows : r[3] <= r[4] /\ r[4] <= now)
    /\ [][\A r \in StampedRows : \A q \in StampedRows' :
            r[1] = q[1] /\ r[2] = q[2] =>
                /\ q[3] = r[3]
                /\ q[4] >= r[4]
                /\ q # r => q[4] = now']_vars
    /\ [][\A q \in StampedRows' \ StampedRows : q[4] = now']_vars
    /\ [][now' = now =>
            /\ result'.op = "ProductUpdate" =>
                  \E p \in product' :
                      <<p.id>> = result'.arg /\ p.updated_at = now'
            /\ result'.op = "InventoryUpdate" =>
                  \E v \in productInventory' :
                      <<v.id>> = result'.arg /\ v.updated_at = now'
            /\ result'.op = "MediaUpdate" =>
                  \E m \in media' :
                      <<m.id>> = result'.arg /\ m.updated_at = now']_vars

\* C7 witness: a variant has been updated after the clock moved on from its
\* insert: its updated_at is later than its created_at.
UpdatedLater ==
    /\ result.op = "InventoryUpdate"
    /\ \E v \in productInventory :
          /\ <<v.id>> = result.arg
          /\ v.created_at < v.updated_at
          /\ v.updated_at = now

\* C8: of two transactions that insert variants with the same sku, under
\* every interleaving, at most one commits and the other's insert fails with
\* UniquenessViolation; no two stored variants ever share a sku.
OneCommitPerSku ==
    /\ \A v, w \in productInventory : v.id # w.id => v.sku # w.sku
    /\ \A t, u \in Txns :
          /\ t # u
          /\ txn[t].state = "committed"
          /\ txn[u].state \in {"written", "failed", "committed"}
          /\ txn[u].sku = txn[t].sku
          => /\ txn[u].state = "failed"
             /\ txn[u].status = UniquenessViolation

\* C8 witness: one transaction has committed its variant and the other's
\* insert of the same sku, with another upc, has failed.
SecondWriterFailed ==
    \E t, u \in Txns :
        /\ txn[t].state = "committed"
        /\ txn[u].state = "failed"
        /\ txn[u].status = UniquenessViolation
        /\ txn[u].sku = txn[t].sku
        /\ txn[u].upc # txn[t].upc

\* C9: no variant has more than one Stock row; the insert of a Stock row for
\* a variant that has one fails; and a counter left out when a Stock row is
\* created is stored as 0.
StockOnePerVariant ==
    /\ [](\A s, t \in stock :
            s.id # t.id => s.product_inventory # t.product_inventory)
    /\ [][result'.op = "StockInsert" =>
            LET a == result'.arg
            IN  /\ (\E s \in stock : s.product_inventory = a[1]) =>
                      /\ result'.status # OK
                      /\ stock' = stock
                /\ result'.status = OK =>
                      \E s \in stock' \ stock :
                          /\ s.product_inventory = a[1]
                          /\ a[2] = {} => s.units = 0
                          /\ a[3] = {} => s.units_sold = 0
                          /\ a[2] # {} => s.units \in a[2]
                          /\ a[3] # {} => s.units_sold \in a[3]]_vars

\* C9 witness: a second Stock row has been refused for a variant whose Stock
\* row, created without counters, holds zero units and zero units sold.
SecondStockRefused ==
    /\ result = Returned("StockInsert", <<1, {}, {}>>, UniquenessViolation)
    /\ \E s \in stock :
          s.product_inventory = 1 /\ s.units = 0 /\ s.units_sold = 0

====
